---- MODULE Spec2Model ----
(***************************************************************************)
(* Model of src/scraper.py: the Scraper class (queue builder, page         *)
(* scraper, output writer) of the PCPartPicker scraper.                    *)
(*                                                                         *)
(* Strings that the code takes apart (URLs) are sequences of tokens, where *)
(* "/" is a token of its own and every other token is a run of characters  *)
(* without "/".  Python's None is the value None below.                    *)
(***************************************************************************)
EXTENDS Integers, Sequences, FiniteSets, TLC

(* ------------------------------ bounds --------------------------------- *)
MaxEndpoints == 2
MaxPages == 2
MaxValues == 2
MaxRows == 1
MaxPageValues == 4
MaxPageRows == 2

(* --------------------------- helper operators -------------------------- *)
Min(a, b) == IF a <= b THEN a ELSE b

Range(s) == {s[i] : i \in 1..Len(s)}

SeqsUpTo(S, n) == UNION {[1..m -> S] : m \in 0..n}

RECURSIVE Concat(_)
Concat(ss) == IF ss = <<>> THEN <<>> ELSE Head(ss) \o Concat(Tail(ss))

(* Python's None (json.dumps writes it as null) *)
None == "<None>"

(* ------------------------------ strings -------------------------------- *)
(* number of characters of a token *)
TokLen(t) == IF t = "/" THEN 1 ELSE IF t = "https:" THEN 6 ELSE 99

(* text[n:] *)
RECURSIVE DropChars(_, _)
DropChars(s, n) ==
    IF n <= 0 \/ s = <<>> THEN s
    ELSE IF TokLen(Head(s)) <= n THEN DropChars(Tail(s), n - TokLen(Head(s)))
    ELSE s

(* text.split("/"): the list of the segments between the separators *)
RECURSIVE Split(_)
Split(s) ==
    IF s = <<>> THEN << <<>> >>
    ELSE IF Head(s) = "/" THEN << <<>> >> \o Split(Tail(s))
    ELSE LET rest == Split(Tail(s))
         IN  << <<Head(s)>> \o Head(rest) >> \o Tail(rest)

_BASE_URL == <<"https:", "/", "/", "pcpartpicker.com", "/", "products">>

(* the category paths a Scraper may be constructed with *)
Paths == { <<"/", "cpu">>, <<"/", "memory">>, <<"/", "laptop", "/", "cpu">> }

(* Scraper.__init__: self._abs_endpoints *)
AbsEndpoint(e) == _BASE_URL \o e \o <<"/", "fetch">>

abs_endpoints_of(eps) == [i \in 1..Len(eps) |-> AbsEndpoint(eps[i])]

(* _scrape: file_name = scrapee["url"][8:].split("/")[-2] + ".json" *)
FileNameWrong(url) ==
    LET parts == Split(DropChars(url, 8))
    IN  parts[Len(parts)] \o <<".json">>

FileName(url) ==
    LET parts == Split(DropChars(url, 8))
    IN  parts[Len(parts) - 1] \o <<".json">>

(* --------------------------- page assembly ----------------------------- *)
(* _chunker: (seq[pos:pos + size] for pos in range(0, len(seq), size)),     *)
(* size >= 1; one chunk per start position 0, size, 2*size, ... < len(seq)  *)
Chunker(seq, size) ==
    LET starts == {pos \in 0..(Len(seq) - 1) : pos % size = 0}
    IN  [n \in 1..Cardinality(starts) |->
            SubSeq(seq, (n - 1) * size + 1, Min(n * size, Len(seq)))]

(* dict(zip(categories, val_group)): zip stops at the shorter sequence; a   *)
(* repeated key keeps the last value paired with it                         *)
ZipDict(categories, val_group) ==
    LET m == Min(Len(categories), Len(val_group))
    IN  [key \in {categories[i] : i \in 1..m} |->
            val_group[CHOOSE i \in 1..m :
                         /\ categories[i] = key
                         /\ \A j \in 1..m : categories[j] = key => j <= i]]

(* price = prices[i] if prices[i] != "Add" else None *)
PriceOfKeepAdd(text) == text

PriceOf(text) == IF text # "Add" THEN text ELSE None

(* item.update({"name": names[i], "price": price}) *)
Update(item, names, prices, i) ==
    [key \in DOMAIN item \cup {"name", "price"} |->
        IF key = "name" THEN names[i]
        ELSE IF key = "price" THEN PriceOf(prices[i])
        ELSE item[key]]

(* the body of the while loop of _scrape between the GET and "items +=":    *)
(* the records of one page, or the exception that the body raises           *)
(*   ValueError: range() step 0, when the category has no attribute names   *)
(*   IndexError: prices[i] or names[i] past the end of the list             *)
PageItems(categories, values, names, prices) ==
    IF Len(categories) = 0
    THEN [err |-> "ValueError", page_items |-> <<>>]
    ELSE LET groups == Chunker(values, Len(categories))
             partial == [n \in 1..Len(groups) |-> ZipDict(categories, groups[n])]
         IN  IF Len(partial) > Len(prices) \/ Len(partial) > Len(names)
             THEN [err |-> "IndexError", page_items |-> <<>>]
             ELSE [err |-> "none",
                   page_items |-> [i \in 1..Len(partial) |->
                                      Update(partial[i], names, prices, i)]]

(* ------------------------------- state --------------------------------- *)
VARIABLES
    endpoints,       \* self.endpoints: the configured category paths
    scrape_queue,    \* self._scrape_queue: None, or the list of queue entries
    idx,             \* _create_scrape_queue: position of the for loop (1-based)
    pc,              \* "create_queue", "scrape", "done", "failed"
    error,           \* the exception that ended the run, or "none"
    qi,              \* _scrape: position of the for loop over the queue
    current_page,    \* _scrape: current_page
    items,           \* _scrape: items
    dir_exists,      \* os.path.exists(self.output_dir)
    mkdirs,          \* number of os.mkdir calls
    writes,          \* the open(file_path, "w") calls so far, in order: [q, file]
    written,         \* the content (items) the latest step wrote to a file
    written_pages,   \* history: the page_items of the pages of that category
    resp,            \* history: resp[i] = req.ok of the validation GET of endpoint i
    fetched,         \* history: the page_items of each page of the current entry
    log,             \* history: the GETs and file writes, in order
    req_ok,          \* _scrape: req.ok of the latest page GET
    raised,          \* history: the loop body of a page raised an exception
    in_categories,   \* page assembly alone: scrapee["categories"]
    in_values,       \*   values
    in_names,        \*   names
    in_prices,       \*   prices
    out_page         \*   the result of the assembly

runVars == <<endpoints, scrape_queue, idx, pc, error, qi, current_page, items,
             dir_exists, mkdirs, writes, written, written_pages, resp, fetched,
             log, req_ok, raised>>

pageVars == <<in_categories, in_values, in_names, in_prices, out_page>>

vars == <<runVars, pageVars>>

(* ---------------------------- the server ------------------------------- *)
(* the specification columns the first page of a category shows, in order: *)
(* two columns, one column, and a listing without specification columns     *)
CategoriesOf(e) ==
    IF e = <<"/", "cpu">> THEN <<"cores", "tdp">>
    ELSE IF e = <<"/", "memory">> THEN <<"speed">>
    ELSE <<>>

(* the total page counts a pagination control can show *)
PageCounts == 0..MaxPages

(* the texts of a price cell *)
PriceTexts == {"Add", "$5"}

(* what bs4 extracts from the body of page `page`: the j-th value and the   *)
(* i-th name are tagged with the page and their position                    *)
ValuesOf(page, v) == [j \in 1..v |-> <<"value", page, j>>]

NamesOf(page, n) == [i \in 1..n |-> <<"name", page, i>>]

(* the price texts of a page with n rows: the first row shows no price *)
PricesOf(page, n) == [i \in 1..n |-> IF i = 1 THEN "Add" ELSE "$5"]

(* ------------------------------ Scraper -------------------------------- *)
(* __init__ *)
Init ==
    /\ endpoints \in SeqsUpTo(Paths, MaxEndpoints)
    /\ scrape_queue = None
    /\ idx = 1
    /\ pc = "create_queue"
    /\ error = "none"
    /\ qi = 0
    /\ current_page = 0
    /\ items = <<>>
    /\ dir_exists = FALSE
    /\ mkdirs = 0
    /\ writes = <<>>
    /\ written = <<>>
    /\ written_pages = <<>>
    /\ resp = <<>>
    /\ fetched = <<>>
    /\ log = <<>>
    /\ req_ok = TRUE
    /\ raised = FALSE
    /\ in_categories = <<>>
    /\ in_values = <<>>
    /\ in_names = <<>>
    /\ in_prices = <<>>
    /\ out_page = [err |-> "none", page_items |-> <<>>]

abs_endpoints == abs_endpoints_of(endpoints)

(* self._scrape_queue = [] at the top of _create_scrape_queue *)
Queue == IF scrape_queue = None THEN <<>> ELSE scrape_queue

(* one iteration of the for loop of _create_scrape_queue: the queue after   *)
(* the endpoint's GET returned (ok) and, if ok, its first page was parsed   *)
QueueAfterNoSkip(queue, url, ok, categories, page_count) ==
    Append(queue, [url |-> url, categories |-> categories, page_count |-> page_count])

QueueAfter(queue, url, ok, categories, page_count) ==
    IF ~ok THEN queue
    ELSE Append(queue, [url |-> url, categories |-> categories, page_count |-> page_count])

(* one iteration of the for loop of _create_scrape_queue *)
ValidateEndpoint ==
    /\ pc = "create_queue"
    /\ idx <= Len(abs_endpoints)
    /\ \E ok \in BOOLEAN, parses \in BOOLEAN, page_count \in PageCounts :
        /\ ~ok => parses /\ page_count = 0
        /\ ~parses => page_count = 0
        /\ resp' = Append(resp, ok)
        /\ log' = Append(log, <<"validate", idx, 0>>)
        /\ IF ok /\ ~parses
           THEN \* bs4.find(...) is None, or int() of a non-number
                /\ pc' = "failed"
                /\ error' = "AttributeError"
                /\ scrape_queue' = Queue
                /\ idx' = idx
           ELSE /\ scrape_queue' = QueueAfter(Queue, abs_endpoints[idx], ok,
                                              CategoriesOf(endpoints[idx]),
                                              page_count)
                /\ idx' = idx + 1
                /\ UNCHANGED <<pc, error>>
    /\ UNCHANGED <<endpoints, qi, current_page, items, dir_exists, mkdirs,
                   writes, written, written_pages, fetched, req_ok, raised>>
    /\ UNCHANGED pageVars

(* assert self._scrape_queue, "Scrape queue does not exist. ..." *)
QueueAssertNotNone(queue) == queue # None

QueueAssert(queue) == queue # None /\ queue # <<>>

(* run: _create_scrape_queue has returned, _scrape starts *)
StartScrape ==
    /\ pc = "create_queue"
    /\ idx > Len(abs_endpoints)
    /\ scrape_queue' = Queue
    /\ IF QueueAssert(Queue)
       THEN /\ pc' = IF Len(Queue) >= 1 THEN "scrape" ELSE "done"
            /\ qi' = 1
            /\ current_page' = 1
            /\ UNCHANGED error
       ELSE /\ pc' = "failed"
            /\ error' = "AssertionError"
            /\ UNCHANGED <<qi, current_page>>
    /\ UNCHANGED <<endpoints, idx, items, dir_exists, mkdirs, writes, written,
                   written_pages, resp, fetched, log, req_ok, raised>>
    /\ UNCHANGED pageVars

scrapee == scrape_queue[qi]

(* while current_page <= scrapee["page_count"] *)
LoopCondStrict(page, page_count) == page < page_count

LoopCond(page, page_count) == page <= page_count

(* an exception raised in the loop body is not caught anywhere *)
AfterExceptionSwallowed == "scrape"

AfterException == "failed"

(* items += page_items *)
AccumulatePrepend(its, page_items) == page_items \o its

Accumulate(its, page_items) == its \o page_items

(* one iteration of the while loop of _scrape: GET page current_page, parse *)
(* it, assemble its records, add them to items                              *)
ScrapePage ==
    /\ pc = "scrape"
    /\ LoopCond(current_page, scrapee.page_count)
    /\ \E ok \in BOOLEAN, v \in 0..MaxValues, n \in 0..MaxRows :
        \* the body of an error response carries no listing
        /\ ~ok => v = 0 /\ n = 0
        /\ LET r == PageItems(scrapee.categories, ValuesOf(current_page, v),
                           NamesOf(current_page, n), PricesOf(current_page, n))
           IN  /\ log' = Append(log, <<"page", qi, current_page>>)
               /\ req_ok' = ok
               /\ IF r.err # "none"
                  THEN /\ pc' = AfterException
                       /\ error' = r.err
                       /\ raised' = TRUE
                       /\ UNCHANGED <<items, fetched, current_page>>
                  ELSE /\ items' = Accumulate(items, r.page_items)
                       /\ fetched' = Append(fetched, r.page_items)
                       /\ current_page' = current_page + 1
                       /\ UNCHANGED <<pc, error, raised>>
    /\ written' = <<>>
    /\ written_pages' = <<>>
    /\ UNCHANGED <<endpoints, scrape_queue, idx, qi, dir_exists, mkdirs, writes, resp>>
    /\ UNCHANGED pageVars

(* the end of one iteration of the for loop of _scrape: the while loop is   *)
(* over, the directory is created if absent, the file is written, and the   *)
(* next entry starts with current_page = 1 and items = []                   *)
WriteCategory ==
    /\ pc = "scrape"
    /\ ~LoopCond(current_page, scrapee.page_count)
    /\ dir_exists' = TRUE
    /\ mkdirs' = IF dir_exists THEN mkdirs ELSE mkdirs + 1
    /\ writes' = Append(writes, [q |-> qi, file |-> FileName(scrapee.url)])
    /\ written' = items
    /\ written_pages' = fetched
    /\ log' = Append(log, <<"write", qi, 0>>)
    /\ qi' = qi + 1
    /\ current_page' = 1
    /\ items' = <<>>
    /\ fetched' = <<>>
    /\ pc' = IF qi + 1 <= Len(scrape_queue) THEN "scrape" ELSE "done"
    /\ UNCHANGED <<endpoints, scrape_queue, idx, error, resp, req_ok, raised>>
    /\ UNCHANGED pageVars

Next ==
    \/ ValidateEndpoint
    \/ StartScrape
    \/ ScrapePage
    \/ WriteCategory

Spec == Init /\ [][Next]_vars

(* ----------------------- the page assembly alone ----------------------- *)
(* the attribute-name lists, price texts and extraction results the page    *)
(* assembly is applied to: find(text=True) gives None for a cell without    *)
(* text                                                                     *)
PageCategoryLists == { <<>>, <<"cores">>, <<"cores", "tdp">> }

PagePrices == PriceTexts \cup {"add", None}

InitPage ==
    /\ endpoints = <<>>
    /\ scrape_queue = None
    /\ idx = 1
    /\ pc = "page"
    /\ error = "none"
    /\ qi = 0
    /\ current_page = 1
    /\ items = <<>>
    /\ dir_exists = FALSE
    /\ mkdirs = 0
    /\ writes = <<>>
    /\ written = <<>>
    /\ written_pages = <<>>
    /\ resp = <<>>
    /\ fetched = <<>>
    /\ log = <<>>
    /\ req_ok = TRUE
    /\ raised = FALSE
    /\ in_categories \in PageCategoryLists
    /\ \E v \in 0..MaxPageValues : in_values = ValuesOf(1, v)
    /\ \E n \in 0..MaxPageRows : in_names = NamesOf(1, n)
    /\ in_prices \in SeqsUpTo(PagePrices, MaxPageRows)
    /\ out_page = [err |-> "none", page_items |-> <<>>]

(* the loop body of _scrape applied to one parsed page *)
AssemblePage ==
    /\ pc = "page"
    /\ pc' = "assembled"
    /\ out_page' = PageItems(in_categories, in_values, in_names, in_prices)
    /\ UNCHANGED <<in_categories, in_values, in_names, in_prices>>
    /\ UNCHANGED <<endpoints, scrape_queue, idx, error, qi, current_page, items,
                   dir_exists, mkdirs, writes, written, written_pages, resp,
                   fetched, log, req_ok, raised>>

NextPage == AssemblePage

SpecPage == InitPage /\ [][NextPage]_vars

(* ====================== properties of the scraper ====================== *)
(* the positions of the log holding an event of the given kind *)
Events(kind) == {a \in 1..Len(log) : log[a][1] = kind}

(* the page parameters of the page GETs of queue entry q, in log order *)
RECURSIVE PagesIn(_, _)
PagesIn(l, q) ==
    IF l = <<>> THEN <<>>
    ELSE IF Head(l)[1] = "page" /\ Head(l)[2] = q
         THEN <<Head(l)[3]>> \o PagesIn(Tail(l), q)
         ELSE PagesIn(Tail(l), q)

(* the elements of urls whose validation GET succeeded, in order *)
RECURSIVE ValidatedOk(_, _)
ValidatedOk(urls, oks) ==
    IF urls = <<>> THEN <<>>
    ELSE IF Head(oks) THEN <<Head(urls)>> \o ValidatedOk(Tail(urls), Tail(oks))
         ELSE ValidatedOk(Tail(urls), Tail(oks))

(* the latest step wrote a file: its content is in written *)
JustWritten == log # <<>> /\ log[Len(log)][1] = "write"

(* the final path segment of a configured category path *)
FinalSegment(e) == LET parts == Split(e) IN parts[Len(parts)]

DistinctFinalSegments ==
    \A i, j \in 1..Len(endpoints) :
        i # j => FinalSegment(endpoints[i]) # FinalSegment(endpoints[j])

(* C1: for an attribute-name list of length k >= 1, the number of records   *)
(* assembled from v values is floor(v / k); v mod k trailing values give no *)
(* record.                                                                  *)
C1_RecordCountIsFloor ==
    (pc = "assembled" /\ Len(in_categories) >= 1 /\ out_page.err = "none")
        => Len(out_page.page_items) = Len(in_values) \div Len(in_categories)

(* C2: an endpoint whose validation GET fails gets no queue entry and no    *)
(* file, the loop goes on with the next endpoint, and the queue is the      *)
(* subsequence of the endpoints validated successfully, in input order.     *)
C2_QueueIsValidatedSubsequence ==
    /\ pc = "create_queue" => Len(resp) = idx - 1
    /\ pc # "page" =>
          [j \in 1..Len(Queue) |-> Queue[j].url]
              = ValidatedOk(SubSeq(abs_endpoints, 1, idx - 1), SubSeq(resp, 1, idx - 1))
    /\ \A j \in 1..Len(writes) :
          /\ writes[j].q \in 1..Len(Queue)
          /\ writes[j].file = FileName(Queue[writes[j].q].url)
    /\ Len(writes) <= Cardinality({i \in 1..Len(resp) : resp[i]})
    /\ pc = "done" =>
          /\ Len(resp) = Len(endpoints)
          /\ Len(writes) = Cardinality({i \in 1..Len(resp) : resp[i]})

C2_Witness ==
    /\ pc = "done"
    /\ Len(resp) = 2 /\ ~resp[1] /\ resp[2]
    /\ Len(writes) = 1
    /\ writes[1].file = FileName(abs_endpoints[2])

(* C3: a non-success status of a page GET ends the run: after it no page is *)
(* fetched and no file is written.                                          *)
C3_PageHttpFailureIsFatal == [][~req_ok => UNCHANGED <<log, writes>>]_vars

(* C4: with an empty queue the run fails at the assertion of _scrape: no    *)
(* page GET, no mkdir, no file.                                             *)
C4_EmptyQueueFailsAtAssert ==
    (pc \in {"scrape", "done", "failed"} /\ error # "AttributeError" /\ Queue = <<>>)
        => /\ pc = "failed"
           /\ error = "AssertionError"
           /\ Events("page") = {}
           /\ mkdirs = 0 /\ ~dir_exists
           /\ writes = <<>>

C4_Witness ==
    /\ pc = "failed" /\ error = "AssertionError"
    /\ Len(endpoints) = 2 /\ Len(resp) = 2
    /\ scrape_queue = <<>>

(* C5 as stated: no output file path is written more than once in a run,    *)
(* whatever the list of configured category paths.                          *)
C5_NoFileWrittenTwice ==
    \A i, j \in 1..Len(writes) : i # j => writes[i].file # writes[j].file

(* C5 amended: every queue entry is written at most once, in queue order,   *)
(* exactly once when the run completes; no file path is written twice when  *)
(* the configured paths have pairwise distinct final segments.              *)
C5_OneWritePerEntry ==
    /\ \A j \in 1..Len(writes) :
          /\ writes[j].q = j
          /\ j <= Len(Queue)
          /\ writes[j].file = FinalSegment(SubSeq(Queue[j].url, Len(_BASE_URL) + 1,
                                                  Len(Queue[j].url) - 2))
                                 \o <<".json">>
    /\ pc = "done" => Len(writes) = Len(Queue)
    /\ DistinctFinalSegments =>
          \A i, j \in 1..Len(writes) : i # j => writes[i].file # writes[j].file

C5_Witness ==
    /\ pc = "done"
    /\ Len(writes) = 2
    /\ DistinctFinalSegments
    /\ writes[1].file # writes[2].file

(* C6: every record of a written file has exactly the keys of its           *)
(* category's attribute names plus "name" and "price".                      *)
C6_RecordsHaveAllKeys ==
    JustWritten =>
        \A i \in 1..Len(written) :
            DOMAIN written[i]
                = Range(Queue[writes[Len(writes)].q].categories) \cup {"name", "price"}

C8_ExceptionAbortsRun ==
    raised =>
        /\ pc = "failed"
        /\ error \in {"IndexError", "ValueError"}
        /\ Len(writes) = qi - 1
        /\ \A j \in 1..Len(writes) : writes[j].q < qi
        /\ log[Len(log)] = <<"page", qi, current_page>>
        /\ ~ENABLED Next

C8_Witness ==
    /\ raised /\ error = "IndexError"
    /\ qi = 2 /\ current_page = 2
    /\ Len(writes) = 1

(* C9: every validation GET precedes the first page GET; the entries are    *)
(* scraped one after the other, the file of an entry being written after    *)
(* all its pages 1..N and before the first page GET of the next entry.      *)
C9_TopDownOrder ==
    /\ \A a, b \in 1..Len(log) :
          a < b =>
            /\ log[b][1] = "validate" => log[a][1] = "validate"
            /\ (log[a][1] # "validate" /\ log[b][1] # "validate") => log[a][2] <= log[b][2]
            /\ log[a][1] = "write" => log[a][2] < log[b][2]
    /\ \A b \in Events("write") :
          \A page \in 1..Queue[log[b][2]].page_count :
              \E a \in 1..(b - 1) : log[a] = <<"page", log[b][2], page>>
    /\ \A b \in Events("page") :
          \A q \in 1..(log[b][2] - 1) :
              \E a \in 1..(b - 1) : log[a] = <<"write", q, 0>>

C9_Witness ==
    /\ pc = "done"
    /\ Len(writes) = 2
    /\ Queue[1].page_count = 2 /\ Queue[2].page_count = 1
    /\ Len(log) = 7

(* C10: an entry with page count N gets the page GETs 1, 2, ..., N, once    *)
(* each and in this order (none when N <= 0), and the list written is the   *)
(* concatenation of the pages' record lists in page order.                  *)
C10_PagesInOrderAndConcatenated ==
    /\ pc = "scrape" =>
          /\ PagesIn(log, qi) = [p \in 1..(current_page - 1) |-> p]
          /\ current_page - 1 <= IF scrapee.page_count > 0 THEN scrapee.page_count ELSE 0
          /\ Len(fetched) = current_page - 1
          /\ items = Concat(fetched)
    /\ \A j \in 1..Len(writes) :
          PagesIn(log, j) = [p \in 1..Queue[j].page_count |-> p]
    /\ JustWritten =>
          /\ Len(written_pages) = (IF Queue[Len(writes)].page_count > 0
                                   THEN Queue[Len(writes)].page_count ELSE 0)
          /\ written = Concat(written_pages)

C10_Witness ==
    /\ JustWritten
    /\ Len(written_pages) = 2
    /\ Len(written_pages[1]) = 1 /\ Len(written_pages[2]) = 1
    /\ Len(written) = 2
    /\ written[1]["name"] = <<"name", 1, 1>>
    /\ written[2]["name"] = <<"name", 2, 1>>

====
